---- MODULE Spec2Model ----
(***************************************************************************)
(* generate_hail_gvs_import.py: the path classifier generate_avro_dict and *)
(* the serializer generate_avro_args.                                      *)
(*                                                                         *)
(* A Python str is a sequence of one-character strings, a list is a        *)
(* sequence, a dict is the sequence of its entries in insertion order.     *)
(***************************************************************************)
EXTENDS Integers, Sequences, FiniteSets, TLC

(***************************************************************************)
(* Bounds.                                                                 *)
(***************************************************************************)
\* the longest listing handed to generate_avro_dict
MaxLines == 3
\* the most entries of a mapping handed to generate_avro_args
MaxEntries == 2

(***************************************************************************)
(* str and list primitives of the Python runtime, as the code uses them.   *)
(***************************************************************************)
\* the characters str.strip() removes (of the model's alphabet)
WHITESPACE == {" ", "\t", "\n", "\r"}

DIGITS == {"0", "1", "2", "3", "4", "5", "6", "7", "8", "9"}

RECURSIVE LStrip(_)
LStrip(s) ==
    IF s # <<>> /\ Head(s) \in WHITESPACE THEN LStrip(Tail(s)) ELSE s

RECURSIVE RStrip(_)
RStrip(s) ==
    IF s # <<>> /\ s[Len(s)] \in WHITESPACE
    THEN RStrip(SubSeq(s, 1, Len(s) - 1))
    ELSE s

\* str.strip()
Strip(s) == RStrip(LStrip(s))

\* str.endswith(suffix)
EndsWith(s, suffix) ==
    /\ Len(s) >= Len(suffix)
    /\ SubSeq(s, Len(s) - Len(suffix) + 1, Len(s)) = suffix

\* str.startswith(prefix)
StartsWith(s, prefix) ==
    /\ Len(s) >= Len(prefix)
    /\ SubSeq(s, 1, Len(prefix)) = prefix

\* s[n:] for n >= 0
SliceFrom(s, n) == IF n >= Len(s) THEN <<>> ELSE SubSeq(s, n + 1, Len(s))

\* the 1-based position of the first sep in s, 0 when there is none
FirstPos(s, sep) ==
    IF \E i \in 1..Len(s) : s[i] = sep
    THEN CHOOSE i \in 1..Len(s) : s[i] = sep /\ \A j \in 1..(i - 1) : s[j] # sep
    ELSE 0

\* str.split(sep) for a one-character sep: always at least one part
RECURSIVE Split(_, _)
Split(s, sep) ==
    LET i == FirstPos(s, sep)
    IN  IF i = 0
        THEN <<s>>
        ELSE <<SubSeq(s, 1, i - 1)>> \o Split(SliceFrom(s, i), sep)

\* the body of an int() literal: surrounding whitespace and one sign removed
IntDigits(s) ==
    LET t == Strip(s)
    IN  IF t # <<>> /\ Head(t) \in {"+", "-"} THEN Tail(t) ELSE t

\* whether int(s) succeeds (no ValueError)
IsIntLiteral(s) ==
    /\ IntDigits(s) # <<>>
    /\ \A i \in 1..Len(IntDigits(s)) : IntDigits(s)[i] \in DIGITS

DigitValue(c) ==
    CASE c = "1" -> 1 [] c = "2" -> 2 [] c = "3" -> 3 [] c = "4" -> 4
      [] c = "5" -> 5 [] c = "6" -> 6 [] c = "7" -> 7 [] c = "8" -> 8
      [] c = "9" -> 9 [] OTHER -> 0

RECURSIVE DecimalValue(_)
DecimalValue(ds) ==
    IF ds = <<>>
    THEN 0
    ELSE 10 * DecimalValue(SubSeq(ds, 1, Len(ds) - 1)) + DigitValue(ds[Len(ds)])

\* int(s), for s with IsIntLiteral(s)
IntValue(s) ==
    LET t == Strip(s)
    IN  IF t # <<>> /\ Head(t) = "-"
        THEN 0 - DecimalValue(IntDigits(s))
        ELSE DecimalValue(IntDigits(s))

\* whether list[index] exists: Python accepts -len .. len-1
ListIndexOk(list, index) == 0 - Len(list) <= index /\ index < Len(list)

\* the 1-based position list[index] names; a negative index counts from the end
ListPos(list, index) == IF index >= 0 THEN index + 1 ELSE Len(list) + index + 1

(***************************************************************************)
(* defaultdict(list), as the sequence of its entries in insertion order.   *)
(***************************************************************************)
HasKey(d, k) == \E i \in 1..Len(d) : d[i].key = k

KeyPos(d, k) == CHOOSE i \in 1..Len(d) : d[i].key = k

\* d[k] of a key that is present
Lookup(d, k) == d[KeyPos(d, k)].value

\* reading d[k] of a defaultdict(list) inserts k with [] when it is missing
Touch(d, k) == IF HasKey(d, k) THEN d ELSE Append(d, [key |-> k, value |-> <<>>])

\* the dict after d[k] was replaced by v (k present)
Store(d, k, v) == [d EXCEPT ![KeyPos(d, k)].value = v]

(***************************************************************************)
(* generate_avro_dict                                                      *)
(***************************************************************************)
vets == <<"v", "e", "t", "s">>
refs == <<"r", "e", "f", "s">>
superpartitioned_keys == {vets, refs}

dot_avro == <<".", "a", "v", "r", "o">>

\* line 22
SlashedPrefix(prefix) ==
    IF prefix[Len(prefix)] # "/" THEN prefix \o <<"/">> ELSE prefix

\* lines 25-27: the line survives the `continue`
QualifiesAlways(line) == TRUE
Qualifies(line) == EndsWith(Strip(line), dot_avro)

\* line 28
RelativePath(full_path, slashed) == SliceFrom(full_path, Len(slashed))

\* line 29
Parts(full_path, slashed) == Split(RelativePath(full_path, slashed), "/")

\* line 30
Key(full_path, slashed) == Parts(full_path, slashed)[1]

\* line 34: the text int() is applied to
IndexText(parts) ==
    LET pieces == Split(parts[2], "_") IN pieces[Len(pieces)]

\* line 34: int() raises ValueError
ParseFailsNever(parts) == FALSE
ParseFails(parts) == ~IsIntLiteral(IndexText(parts))

\* line 34
SuperIndex(parts) == IntValue(IndexText(parts)) - 1

\* line 35
NeedsNewSlotEager(outer, index) == Len(outer) <= index + 1
NeedsNewSlot(outer, index) == Len(outer) = index

\* line 37: outer[index].append(full_path)
AppendToSlot(outer, index, full_path) ==
    [outer EXCEPT ![ListPos(outer, index)] = Append(@, full_path)]

\* line 39
FlatAppendFront(list, full_path) == <<full_path>> \o list
FlatAppendOnce(list, full_path) ==
    IF \E i \in 1..Len(list) : list[i] = full_path
    THEN list
    ELSE Append(list, full_path)
FlatAppend(list, full_path) == Append(list, full_path)

\* lines 32-37 for one qualifying line of a superpartitioned key: the
\* exception raised ("None" when none) and the dict as the line leaves it
SuperStep(d, key, parts, full_path) ==
    IF Len(parts) < 2
    THEN [exc |-> "IndexError", dict |-> d]
    ELSE IF ParseFails(parts)
    THEN [exc |-> "ValueError", dict |-> d]
    ELSE LET index == SuperIndex(parts)
             d1 == Touch(d, key)
             d2 == IF NeedsNewSlot(Lookup(d1, key), index)
                   THEN Store(d1, key, Append(Lookup(d1, key), <<>>))
                   ELSE d1
             outer == Lookup(d2, key)
         IN  IF ~ListIndexOk(outer, index)
             THEN [exc |-> "IndexError", dict |-> d2]
             ELSE [exc |-> "None",
                   dict |-> Store(d2, key, AppendToSlot(outer, index, full_path))]

\* line 39 for one qualifying line of any other key
FlatStep(d, key, full_path) ==
    LET d1 == Touch(d, key)
    IN  Store(d1, key, FlatAppend(Lookup(d1, key), full_path))

(***************************************************************************)
(* The inputs: prefixes and listing lines, as readlines() yields them.     *)
(***************************************************************************)
NL == <<"\n">>
p_ == <<"p", "/">>
vet_ == <<"v", "e", "t", "_">>
sample_mapping_data ==
    <<"s", "a", "m", "p", "l", "e", "_", "m", "a", "p", "p", "i", "n", "g",
      "_", "d", "a", "t", "a">>

\* "p/vets/vet_<nnn>/<f>.avro\n"
VetLine(nnn, f) ==
    p_ \o vets \o <<"/">> \o vet_ \o nnn \o <<"/", f>> \o dot_avro \o NL

Prefixes == { <<>>, <<"p">>, <<"p", "/">> }

Lines ==
    { VetLine(<<"0", "0", "1">>, "a"),
      VetLine(<<"0", "0", "1">>, "b"),
      VetLine(<<"0", "0", "2">>, "c"),
      VetLine(<<"0", "0", "3">>, "d"),
      VetLine(<<"0", "0", "0">>, "e"),
      VetLine(<<"a", "b", "c">>, "f"),
      \* "p/refs/ref_001/g.avro\n"
      p_ \o refs \o <<"/", "r", "e", "f", "_", "0", "0", "1", "/", "g">> \o dot_avro \o NL,
      \* "p/sample_mapping_data/h.avro\n"
      p_ \o sample_mapping_data \o <<"/", "h">> \o dot_avro \o NL,
      \* "  p/sample_mapping_data/m.avro \r\n"
      <<" ", " ">> \o p_ \o sample_mapping_data \o <<"/", "m">> \o dot_avro \o <<" ", "\r", "\n">>,
      \* "p/vets/vet_abc/x.txt\n"
      p_ \o vets \o <<"/">> \o vet_ \o <<"a", "b", "c", "/", "x", ".", "t", "x", "t">> \o NL,
      \* "q/refs/ref_009/y.avro.bak\n"
      <<"q", "/">> \o refs \o <<"/", "r", "e", "f", "_", "0", "0", "9", "/", "y">> \o dot_avro
          \o <<".", "b", "a", "k">> \o NL,
      \* "q/x/i.avro\n"
      <<"q", "/", "x", "/", "i">> \o dot_avro \o NL,
      \* "p/j.avro\n"
      p_ \o <<"j">> \o dot_avro \o NL,
      \* "p/vets/k.avro\n"
      p_ \o vets \o <<"/", "k">> \o dot_avro \o NL,
      \* "\n"
      NL }

\* every listing of at most n lines
Listings(n) == UNION { [1..m -> Lines] : m \in 0..n }

(***************************************************************************)
(* generate_avro_args.  A value handed to json.dumps carries its Python    *)
(* type: <<"str", characters>> or <<"list", items>>; an entry of the dict  *)
(* is <<key, value>>.                                                      *)
(***************************************************************************)
\* line 51: json.dumps(v, indent=4)
indent == 4

Spaces(n) == [i \in 1..n |-> " "]

RECURSIVE Join(_, _)
\* sep.join(strs)
Join(strs, sep) ==
    IF strs = <<>> THEN <<>>
    ELSE IF Len(strs) = 1 THEN strs[1]
    ELSE strs[1] \o sep \o Join(Tail(strs), sep)

RECURSIVE Flat(_)
Flat(strs) == IF strs = <<>> THEN <<>> ELSE Head(strs) \o Flat(Tail(strs))

\* json.dumps of one character of a str (ensure_ascii, ASCII input)
EscapeChar(c) ==
    CASE c = "\"" -> <<"\\", "\"">>
      [] c = "\\" -> <<"\\", "\\">>
      [] c = "\n" -> <<"\\", "n">>
      [] c = "\r" -> <<"\\", "r">>
      [] c = "\t" -> <<"\\", "t">>
      [] OTHER -> <<c>>

\* json.dumps of a str
json_string(chars) ==
    <<"\"">> \o Flat([i \in 1..Len(chars) |-> EscapeChar(chars[i])]) \o <<"\"">>

\* json.dumps(v, indent=4) of a str or a (nested) list, at nesting depth
RECURSIVE json_dumps(_, _)
json_dumps(v, depth) ==
    IF v[1] = "str"
    THEN json_string(v[2])
    ELSE IF v[2] = <<>>
    THEN <<"[", "]">>
    ELSE <<"[", "\n">> \o Spaces(indent * (depth + 1))
         \o Join([i \in 1..Len(v[2]) |-> json_dumps(v[2][i], depth + 1)],
                 <<",", "\n">> \o Spaces(indent * (depth + 1)))
         \o <<"\n">> \o Spaces(indent * depth) \o <<"]">>

\* line 51: f'{k}={json.dumps(v, indent=4)}'
avro_arg_unkeyed(k, v) == json_dumps(v, 0)
avro_arg(k, v) == k \o <<"=">> \o json_dumps(v, 0)

\* line 53
JoinArgs(avro_args_list) == Join(avro_args_list, <<",", "\n">>)

\* lines 49-53, the whole function
generate_avro_args(d) ==
    JoinArgs([i \in 1..Len(d) |-> avro_arg(d[i][1], d[i][2])])

(***************************************************************************)
(* The mappings handed to generate_avro_args.  A key is a path segment of  *)
(* a stripped line of readlines(): it holds no line break and no "/".      *)
(***************************************************************************)
Str(chars) == <<"str", chars>>
List(items) == <<"list", items>>

path_x == Str(<<"x">>)
\* y"\
path_y == Str(<<"y", "\"", "\\">>)

ArgKeys == { <<"a">>, <<"b">>, <<"a", "=", "[">> }

ArgValues ==
    { List(<<>>),
      List(<<path_x>>),
      List(<<path_x, path_y>>),
      List(<<path_y, path_x>>),
      List(<<List(<<path_x, path_y>>)>>),
      List(<<List(<<path_x>>), List(<<path_y>>)>>) }

\* every dict of at most n entries with distinct keys
ArgDicts(n) ==
    UNION { { d \in [1..m -> ArgKeys \X ArgValues] :
                \A i, j \in 1..m : i # j => d[i][1] # d[j][1] } : m \in 0..n }

(***************************************************************************)
(* State.                                                                  *)
(***************************************************************************)
VARIABLES
    avro_prefix,          \* argument of generate_avro_dict
    gcs_listing,          \* what gcs_listing.readlines() yields
    slashed_avro_prefix,  \* local, line 22
    avro_file_arguments,  \* local, line 20
    pos,                  \* lines the loop of line 24 has consumed
    pc,                   \* "idle", "start", "loop", "returned", "raised"
    exception,            \* the exception that ended the call, "None" otherwise
    result,               \* <<>> until the call returns, then <<the dict>>
    avro_dict,            \* argument of generate_avro_args
    avro_args,            \* local, line 49
    item,                 \* entries the loop of line 50 has consumed
    args_pc,              \* "idle", "loop", "returned"
    args_result           \* <<>> until the call returns, then <<the string>>

dictVars == <<avro_prefix, gcs_listing, slashed_avro_prefix, avro_file_arguments,
              pos, pc, exception, result>>

argsVars == <<avro_dict, avro_args, item, args_pc, args_result>>

vars == <<dictVars, argsVars>>

\* no call of generate_avro_dict under way
DictIdle ==
    /\ avro_prefix = <<>>
    /\ gcs_listing = <<>>
    /\ slashed_avro_prefix = <<>>
    /\ avro_file_arguments = <<>>
    /\ pos = 0
    /\ pc = "idle"
    /\ exception = "None"
    /\ result = <<>>

\* no call of generate_avro_args under way
ArgsIdle ==
    /\ avro_dict = <<>>
    /\ avro_args = <<>>
    /\ item = 0
    /\ args_pc = "idle"
    /\ args_result = <<>>

Init ==
    /\ avro_prefix \in Prefixes
    /\ gcs_listing \in Listings(MaxLines)
    /\ slashed_avro_prefix = <<>>
    /\ avro_file_arguments = <<>>
    /\ pos = 0
    /\ pc = "start"
    /\ exception = "None"
    /\ result = <<>>
    /\ ArgsIdle

\* lines 20-22; avro_prefix[-1] of an empty prefix raises IndexError
Enter ==
    /\ pc = "start"
    /\ IF avro_prefix = <<>>
       THEN /\ pc' = "raised"
            /\ exception' = "IndexError"
            /\ UNCHANGED slashed_avro_prefix
       ELSE /\ pc' = "loop"
            /\ slashed_avro_prefix' = SlashedPrefix(avro_prefix)
            /\ UNCHANGED exception
    /\ UNCHANGED <<avro_prefix, gcs_listing, avro_file_arguments, pos, result>>
    /\ UNCHANGED argsVars

\* the line the loop is about to read
CurrentLine == gcs_listing[pos + 1]

\* lines 24-27: a line that does not end in ".avro" is skipped
SkipLine ==
    /\ pc = "loop"
    /\ pos < Len(gcs_listing)
    /\ ~Qualifies(CurrentLine)
    /\ pos' = pos + 1
    /\ UNCHANGED <<avro_prefix, gcs_listing, slashed_avro_prefix,
                   avro_file_arguments, pc, exception, result>>
    /\ UNCHANGED argsVars

\* lines 24-37: a qualifying line of a superpartitioned key
SuperLine ==
    /\ pc = "loop"
    /\ pos < Len(gcs_listing)
    /\ Qualifies(CurrentLine)
    /\ LET full_path == Strip(CurrentLine)
           parts == Parts(full_path, slashed_avro_prefix)
           key == parts[1]
           out == SuperStep(avro_file_arguments, key, parts, full_path)
       IN  /\ key \in superpartitioned_keys
           /\ avro_file_arguments' = out.dict
           /\ exception' = out.exc
           /\ pc' = IF out.exc = "None" THEN "loop" ELSE "raised"
    /\ pos' = pos + 1
    /\ UNCHANGED <<avro_prefix, gcs_listing, slashed_avro_prefix, result>>
    /\ UNCHANGED argsVars

\* lines 24-31, 38-39: a qualifying line of any other key
FlatLine ==
    /\ pc = "loop"
    /\ pos < Len(gcs_listing)
    /\ Qualifies(CurrentLine)
    /\ LET full_path == Strip(CurrentLine)
           key == Key(full_path, slashed_avro_prefix)
       IN  /\ key \notin superpartitioned_keys
           /\ avro_file_arguments' = FlatStep(avro_file_arguments, key, full_path)
    /\ pos' = pos + 1
    /\ UNCHANGED <<avro_prefix, gcs_listing, slashed_avro_prefix, pc,
                   exception, result>>
    /\ UNCHANGED argsVars

\* line 41
Return ==
    /\ pc = "loop"
    /\ pos = Len(gcs_listing)
    /\ pc' = "returned"
    /\ result' = <<avro_file_arguments>>
    /\ UNCHANGED <<avro_prefix, gcs_listing, slashed_avro_prefix,
                   avro_file_arguments, pos, exception>>
    /\ UNCHANGED argsVars

Next == Enter \/ SkipLine \/ SuperLine \/ FlatLine \/ Return

Spec == Init /\ [][Next]_vars

(***************************************************************************)
(* A call of generate_avro_args.                                           *)
(***************************************************************************)
InitArgs ==
    /\ DictIdle
    /\ avro_dict \in ArgDicts(MaxEntries)
    /\ avro_args = <<>>
    /\ item = 0
    /\ args_pc = "loop"
    /\ args_result = <<>>

\* lines 50-52: one entry of avro_dict.items()
ArgsEntry ==
    /\ args_pc = "loop"
    /\ item < Len(avro_dict)
    /\ avro_args' = Append(avro_args,
                           avro_arg(avro_dict[item + 1][1], avro_dict[item + 1][2]))
    /\ item' = item + 1
    /\ UNCHANGED <<avro_dict, args_pc, args_result>>
    /\ UNCHANGED dictVars

\* line 53
ArgsReturn ==
    /\ args_pc = "loop"
    /\ item = Len(avro_dict)
    /\ args_result' = <<JoinArgs(avro_args)>>
    /\ args_pc' = "returned"
    /\ UNCHANGED <<avro_dict, avro_args, item>>
    /\ UNCHANGED dictVars

NextArgs == ArgsEntry \/ ArgsReturn

SpecArgs == InitArgs /\ [][NextArgs]_vars

(***************************************************************************)
(* What the claims speak of, computed from the inputs alone.               *)
(***************************************************************************)
Terminated == pc \in {"returned", "raised"}

IsAvro(s) == EndsWith(s, dot_avro)

\* the listing's lines, whitespace-stripped
Stripped == [i \in 1..Len(gcs_listing) |-> Strip(gcs_listing[i])]

\* the stripped lines that end in ".avro", in input order
AvroPaths == SelectSeq(Stripped, IsAvro)

\* the prefix with its trailing "/" (for a non-empty avro_prefix)
Slashed == SlashedPrefix(avro_prefix)

PartsOf(path) == Split(SliceFrom(path, Len(Slashed)), "/")

KeyOf(path) == PartsOf(path)[1]

\* the ".avro" paths whose first relative segment is k, in input order
KeyPaths(k) == SelectSeq(AvroPaths, LAMBDA x : KeyOf(x) = k)

\* the text after the last "_" of the second relative segment
SuffixText(path) ==
    LET pieces == Split(PartsOf(path)[2], "_") IN pieces[Len(pieces)]

HasIntSuffix(path) == Len(PartsOf(path)) >= 2 /\ IsIntLiteral(SuffixText(path))

\* numeric suffix minus 1
ZeroBased(path) == IntValue(SuffixText(path)) - 1

Count(seq, x) == Cardinality({i \in 1..Len(seq) : seq[i] = x})

RECURSIVE Concat(_)
Concat(seqs) == IF seqs = <<>> THEN <<>> ELSE Head(seqs) \o Concat(Tail(seqs))

\* every path string a mapping holds: flat groups and all inner sequences
RECURSIVE AllPaths(_)
AllPaths(d) ==
    IF d = <<>>
    THEN <<>>
    ELSE (IF Head(d).key \in superpartitioned_keys
          THEN Concat(Head(d).value)
          ELSE Head(d).value) \o AllPaths(Tail(d))

RECURSIVE IsSubsequence(_, _)
IsSubsequence(a, b) ==
    IF a = <<>> THEN TRUE
    ELSE IF b = <<>> THEN FALSE
    ELSE IF Head(a) = Head(b) THEN IsSubsequence(Tail(a), Tail(b))
    ELSE IsSubsequence(a, Tail(b))

Returned == pc = "returned"

\* the mapping the call returned
Mapping == result[1]

(***************************************************************************)
(* C1                                                                      *)
(***************************************************************************)
\* C1: the multiset of path strings held in the returned mapping (flat
\* groups plus every inner sequence of vets and refs) equals the multiset of
\* stripped ".avro" lines of the listing: no path is lost, none duplicated.
C1_NoPathLostOrDuplicated ==
    Returned =>
        /\ Len(AllPaths(Mapping)) = Len(AvroPaths)
        /\ \A i \in 1..Len(AvroPaths) :
               Count(AllPaths(Mapping), AvroPaths[i]) = Count(AvroPaths, AvroPaths[i])

\* a returned mapping with a superpartitioned group, a flat group and a
\* path the listing names twice
C1_Witness ==
    /\ Returned
    /\ HasKey(Mapping, vets)
    /\ \E i \in 1..Len(Mapping) : Mapping[i].key \notin superpartitioned_keys
    /\ \E i \in 1..Len(AvroPaths) : Count(AvroPaths, AvroPaths[i]) = 2

(***************************************************************************)
(* C2                                                                      *)
(***************************************************************************)
\* key k's paths all carry an integer suffix and their zero-based indices
\* never decrease along the listing
OrderedInput(k) ==
    /\ \A i \in 1..Len(KeyPaths(k)) : HasIntSuffix(KeyPaths(k)[i])
    /\ \A i, j \in 1..Len(KeyPaths(k)) :
           i < j => ZeroBased(KeyPaths(k)[i]) <= ZeroBased(KeyPaths(k)[j])

\* max(index) over key k's paths (k has paths)
MaxIndex(k) ==
    CHOOSE m \in {ZeroBased(KeyPaths(k)[i]) : i \in 1..Len(KeyPaths(k))} :
        \A i \in 1..Len(KeyPaths(k)) : ZeroBased(KeyPaths(k)[i]) <= m

\* the returned outer sequence of k has length max(index)+1 and no empty slot
Gapless(k) ==
    /\ HasKey(Mapping, k)
    /\ Len(Lookup(Mapping, k)) = MaxIndex(k) + 1
    /\ \A i \in 1..Len(Lookup(Mapping, k)) : Lookup(Mapping, k)[i] # <<>>

\* C2 as stated: whenever the superpartitioned keys' paths come with
\* non-decreasing indices, the call returns, and returns outer sequences of
\* length max(index)+1 without gaps.
C2_OrderedInputReturnsGapless ==
    (/\ Terminated
     /\ avro_prefix # <<>>
     /\ \A k \in superpartitioned_keys : OrderedInput(k))
        => /\ Returned
           /\ \A k \in superpartitioned_keys : KeyPaths(k) # <<>> => Gapless(k)

\* C2 (amended): whenever a key's paths come with non-decreasing indices and
\* the call returns a mapping, that key's outer sequence has length
\* max(index)+1 and no gaps.
C2_ReturnedOrderedIsGapless ==
    \A k \in superpartitioned_keys :
        (Returned /\ KeyPaths(k) # <<>> /\ OrderedInput(k)) => Gapless(k)

\* a returned mapping whose vets came in order and fill two superpartitions
C2_Witness ==
    /\ Returned
    /\ OrderedInput(vets)
    /\ HasKey(Mapping, vets)
    /\ Len(Lookup(Mapping, vets)) = 2

(***************************************************************************)
(* C3                                                                      *)
(***************************************************************************)
\* C3: in every returned mapping, every path stored at outer position i
\* (zero-based) of a superpartitioned key has numeric suffix i+1.
C3_SlotMatchesSuffix ==
    Returned =>
        \A k \in superpartitioned_keys :
            HasKey(Mapping, k) =>
                \A i \in 1..Len(Lookup(Mapping, k)) :
                    \A j \in 1..Len(Lookup(Mapping, k)[i]) :
                        /\ HasIntSuffix(Lookup(Mapping, k)[i][j])
                        /\ IntValue(SuffixText(Lookup(Mapping, k)[i][j])) = i

(***************************************************************************)
(* C4                                                                      *)
(***************************************************************************)
\* a qualifying line of a superpartitioned key whose suffix is no integer
Malformed(line) ==
    /\ IsAvro(Strip(line))
    /\ KeyOf(Strip(line)) \in superpartitioned_keys
    /\ ~HasIntSuffix(Strip(line))

HasMalformed ==
    /\ avro_prefix # <<>>
    /\ \E i \in 1..Len(gcs_listing) : Malformed(gcs_listing[i])

\* C4: with a malformed superpartition suffix anywhere in the listing the
\* call never returns a mapping, and once the loop has read that line the
\* call has ended in an error, whatever came before or comes after it.
C4_MalformedSuffixRaises ==
    HasMalformed =>
        /\ ~Returned
        /\ result = <<>>
        /\ \A i \in 1..Len(gcs_listing) :
               (Malformed(gcs_listing[i]) /\ pos >= i) => pc = "raised"

\* int() raised on a malformed suffix after earlier lines had been
\* classified and with lines still unread
C4_Witness ==
    /\ pc = "raised"
    /\ exception = "ValueError"
    /\ HasMalformed
    /\ avro_file_arguments # <<>>
    /\ pos < Len(gcs_listing)

(***************************************************************************)
(* C5                                                                      *)
(***************************************************************************)
\* C5: a listing with a qualifying line that does not begin with the
\* slashed prefix yields no mapping.
C5_PrefixMismatchRaises ==
    (/\ avro_prefix # <<>>
     /\ \E i \in 1..Len(AvroPaths) : ~StartsWith(AvroPaths[i], Slashed))
        => ~Returned

(***************************************************************************)
(* C6                                                                      *)
(***************************************************************************)
\* the segments the naming convention asks of a relative path: category,
\* superpartition directory and file, or category and file
EnoughSegments(path) ==
    IF KeyOf(path) \in superpartitioned_keys
    THEN Len(PartsOf(path)) >= 3
    ELSE Len(PartsOf(path)) >= 2

\* C6: a listing with a qualifying line whose relative path has fewer
\* segments than its category requires yields no mapping.
C6_TooFewSegmentsRaises ==
    (/\ avro_prefix # <<>>
     /\ \E i \in 1..Len(AvroPaths) : ~EnoughSegments(AvroPaths[i]))
        => ~Returned

(***************************************************************************)
(* C7                                                                      *)
(***************************************************************************)
\* C7: every flat group is exactly the listing's ".avro" paths of that key,
\* in input order; every inner sequence of a superpartitioned key lists its
\* paths in input order, and is exactly the key's paths of that index, in
\* input order, when the key's indices are all non-negative.
C7_EncounterOrder ==
    Returned =>
        \A e \in 1..Len(Mapping) :
            IF Mapping[e].key \notin superpartitioned_keys
            THEN Mapping[e].value = KeyPaths(Mapping[e].key)
            ELSE \A i \in 1..Len(Mapping[e].value) :
                    /\ IsSubsequence(Mapping[e].value[i], KeyPaths(Mapping[e].key))
                    /\ (\A n \in 1..Len(KeyPaths(Mapping[e].key)) :
                            ZeroBased(KeyPaths(Mapping[e].key)[n]) >= 0)
                       => Mapping[e].value[i] =
                              SelectSeq(KeyPaths(Mapping[e].key),
                                        LAMBDA x : ZeroBased(x) = i - 1)

\* a returned mapping with a flat group of two different paths
C7_Witness ==
    /\ Returned
    /\ \E e \in 1..Len(Mapping) :
           /\ Mapping[e].key \notin superpartitioned_keys
           /\ Len(Mapping[e].value) = 2
           /\ Mapping[e].value[1] # Mapping[e].value[2]

(***************************************************************************)
(* C8                                                                      *)
(***************************************************************************)
\* lines 28-39 applied, in order, to already stripped ".avro" paths alone
RECURSIVE Classify(_, _)
Classify(d, paths) ==
    IF paths = <<>>
    THEN [exc |-> "None", dict |-> d]
    ELSE IF KeyOf(Head(paths)) \in superpartitioned_keys
    THEN LET out == SuperStep(d, KeyOf(Head(paths)), PartsOf(Head(paths)), Head(paths))
         IN  IF out.exc # "None" THEN out ELSE Classify(out.dict, Tail(paths))
    ELSE Classify(FlatStep(d, KeyOf(Head(paths)), Head(paths)), Tail(paths))

\* two dicts with the same entries in the same order
SameDict(d, e) ==
    /\ Len(d) = Len(e)
    /\ \A i \in 1..Len(d) : d[i].key = e[i].key
    /\ \A i \in 1..Len(d) : d[i].value = e[i].value

\* C8: the outcome of a call (the mapping returned, or the exception raised)
\* is the outcome of classifying the listing's ".avro" lines alone: lines
\* that do not end in ".avro" after stripping, wherever they stand and
\* whatever their shape, change neither the mapping nor whether it raises.
C8_OtherLinesIgnored ==
    (Terminated /\ avro_prefix # <<>>) =>
        /\ exception = Classify(<<>>, AvroPaths).exc
        /\ Returned <=> Classify(<<>>, AvroPaths).exc = "None"
        /\ Returned => SameDict(Mapping, Classify(<<>>, AvroPaths).dict)

\* a returned, non-empty mapping of a listing that also holds a line not
\* ending in ".avro" which names a superpartitioned key with a malformed
\* suffix, and one that does not start with the prefix
C8_Witness ==
    /\ Returned
    /\ Mapping # <<>>
    /\ \E i \in 1..Len(Stripped) :
           /\ ~IsAvro(Stripped[i])
           /\ Stripped[i] # <<>>
           /\ KeyOf(Stripped[i]) \in superpartitioned_keys
           /\ ~HasIntSuffix(Stripped[i])
    /\ \E i \in 1..Len(Stripped) :
           ~IsAvro(Stripped[i]) /\ Stripped[i] # <<>> /\ ~StartsWith(Stripped[i], Slashed)

(***************************************************************************)
(* C9                                                                      *)
(***************************************************************************)
\* the loop is about to read a qualifying line of a superpartitioned key
\* with an integer suffix
AtSuperLine ==
    /\ pc = "loop"
    /\ pos < Len(gcs_listing)
    /\ IsAvro(Strip(CurrentLine))
    /\ KeyOf(Strip(CurrentLine)) \in superpartitioned_keys
    /\ HasIntSuffix(Strip(CurrentLine))

\* the outer sequence of the current line's key before the line is read
CurrentOuter ==
    IF HasKey(avro_file_arguments, KeyOf(Strip(CurrentLine)))
    THEN Lookup(avro_file_arguments, KeyOf(Strip(CurrentLine)))
    ELSE <<>>

CurrentIndex == ZeroBased(Strip(CurrentLine))

\* the index is not the next one and names no slot 0 .. len-1
SkippedOrOutOfOrder ==
    /\ AtSuperLine
    /\ CurrentIndex # Len(CurrentOuter)
    /\ CurrentIndex \notin 0..(Len(CurrentOuter) - 1)

\* C9 as stated: a skipped or out-of-order superpartition does not raise;
\* the path is appended and the loop goes on.
C9_SkippedSlotDoesNotRaise ==
    [][SkippedOrOutOfOrder =>
           /\ pc' = "loop"
           /\ Len(AllPaths(avro_file_arguments')) = Len(AllPaths(avro_file_arguments)) + 1]_vars

\* C9 (amended): on a skipped or out-of-order superpartition no new slot is
\* created; an index beyond the current outer length (or below -length)
\* raises IndexError, nothing is appended and no mapping is returned; only a
\* negative index -length .. -1 is silently appended, to the existing slot
\* length+index, and the loop goes on.
C9_SkippedSlotRaisesIndexError ==
    [][SkippedOrOutOfOrder =>
           IF CurrentIndex > Len(CurrentOuter) \/ CurrentIndex < 0 - Len(CurrentOuter)
           THEN /\ pc' = "raised"
                /\ exception' = "IndexError"
                /\ result' = <<>>
                /\ avro_file_arguments' =
                       Touch(avro_file_arguments, KeyOf(Strip(CurrentLine)))
           ELSE /\ pc' = "loop"
                /\ avro_file_arguments' =
                       Store(avro_file_arguments, KeyOf(Strip(CurrentLine)),
                             [CurrentOuter EXCEPT
                                  ![Len(CurrentOuter) + CurrentIndex + 1] =
                                      Append(@, Strip(CurrentLine))])]_vars

\* the call raised IndexError on a superpartition beyond the next slot, after
\* an earlier superpartition of the key had been stored
C9_Witness ==
    /\ pc = "raised"
    /\ exception = "IndexError"
    /\ avro_prefix # <<>>
    /\ pos >= 2
    /\ IsAvro(Stripped[pos])
    /\ KeyOf(Stripped[pos]) \in superpartitioned_keys
    /\ HasIntSuffix(Stripped[pos])
    /\ HasKey(avro_file_arguments, KeyOf(Stripped[pos]))
    /\ Lookup(avro_file_arguments, KeyOf(Stripped[pos])) # <<>>
    /\ ZeroBased(Stripped[pos]) > Len(Lookup(avro_file_arguments, KeyOf(Stripped[pos])))

(***************************************************************************)
(* C10                                                                     *)
(***************************************************************************)
\* the string generate_avro_args returns for each mapping
Serialized == [d \in ArgDicts(MaxEntries) |-> generate_avro_args(d)]

\* C10: the string returned for a mapping is the string of no other
\* mapping: mappings that differ in keys, entry order, path order or
\* nesting serialize differently.
C10_SerializationInjective ==
    args_pc = "returned" =>
        \A d \in ArgDicts(MaxEntries) :
            d # avro_dict => Serialized[d] # args_result[1]

\* a returned string of a mapping with two entries, one flat and one nested
C10_Witness ==
    /\ args_pc = "returned"
    /\ Len(avro_dict) = 2
    /\ avro_dict[1][2] = List(<<List(<<path_x>>), List(<<path_y>>)>>)
    /\ avro_dict[2][2] = List(<<path_y, path_x>>)
    /\ Len(args_result[1]) > 0

====
